---- MODULE Spec2Model ----
(***************************************************************************)
(* Model of src/lib/common/Formatter.ts: the error formatter of the test   *)
(* framework.  A JavaScript string is a sequence of one-character strings, *)
(* so that every regular expression and every indexOf/slice/split of the   *)
(* source is computed character by character.                              *)
(***************************************************************************)
EXTENDS Naturals, Sequences, FiniteSets

VARIABLES filterErrorStack, pc, call, ret, createDiffCalls

vars == <<filterErrorStack, pc, call, ret, createDiffCalls>>

(***************************************************************************)
(* Characters and string primitives                                        *)
(***************************************************************************)
NL == "\n"

\* the characters JavaScript's \s matches, among those the model uses
SpaceChars == {" ", "\t", "\n"}

UpperChars == {"A", "B", "C", "D", "E", "F", "G", "H", "I", "J", "K", "L", "M",
               "N", "O", "P", "Q", "R", "S", "T", "U", "V", "W", "X", "Y", "Z"}

LowerChars == {"a", "b", "c", "d", "e", "f", "g", "h", "i", "j", "k", "l", "m",
               "n", "o", "p", "q", "r", "s", "t", "u", "v", "w", "x", "y", "z"}

DigitChars == {"0", "1", "2", "3", "4", "5", "6", "7", "8", "9"}

\* the characters JavaScript's \w matches
WordChars == UpperChars \cup LowerChars \cup DigitChars \cup {"_"}

IsSpace(c) == c \in SpaceChars

\* s.indexOf(p, i - 1) === i - 1, for a 1-based position i
StartsWithAt(s, p, i) ==
    /\ i >= 1
    /\ i + Len(p) - 1 <= Len(s)
    /\ \A k \in 1..Len(p) : s[i + k - 1] = p[k]

\* s.indexOf(p) === 0
StartsWith(s, p) == StartsWithAt(s, p, 1)

\* a regular expression that is a literal, tested anywhere in s
Contains(s, p) == \E i \in 1..(Len(s) + 1) : StartsWithAt(s, p, i)

\* s.slice(n)
Slice(s, n) == SubSeq(s, n + 1, Len(s))

RECURSIVE IndexFrom(_, _, _)
\* s.indexOf(c, i - 1) + 1 for a character c: its first position from i on, or 0
IndexFrom(s, c, i) ==
    IF i > Len(s) THEN 0
    ELSE IF s[i] = c THEN i
    ELSE IndexFrom(s, c, i + 1)

RECURSIVE SplitFrom(_, _)
\* the lines of s from position i on
SplitFrom(s, i) ==
    LET e == IndexFrom(s, NL, i)
    IN  IF e = 0 THEN <<SubSeq(s, i, Len(s))>>
        ELSE <<SubSeq(s, i, e - 1)>> \o SplitFrom(s, e + 1)

\* s.split('\n')
Split(s) == SplitFrom(s, 1)

RECURSIVE Join(_)
\* lines.join('\n')
Join(lines) ==
    IF lines = <<>> THEN <<>>
    ELSE IF Len(lines) = 1 THEN lines[1]
    ELSE lines[1] \o <<NL>> \o Join(Tail(lines))

RECURSIVE TrimEnd(_)
\* s.replace(/\s+$/, '')
TrimEnd(s) ==
    IF s = <<>> \/ ~IsSpace(s[Len(s)]) THEN s
    ELSE TrimEnd(SubSeq(s, 1, Len(s) - 1))

\* /\S/.test(s)
HasNonSpace(s) == \E i \in 1..Len(s) : ~IsSpace(s[i])

RECURSIVE SkipSpaceFrom(_, _)
SkipSpaceFrom(l, i) ==
    IF i > Len(l) \/ ~IsSpace(l[i]) THEN i ELSE SkipSpaceFrom(l, i + 1)

\* the 1-based position after the leading \s* of a line
SkipSpace(l) == SkipSpaceFrom(l, 1)

(***************************************************************************)
(* String literals of the source                                           *)
(***************************************************************************)
S_undefined == <<"u", "n", "d", "e", "f", "i", "n", "e", "d">>
S_null == <<"n", "u", "l", "l">>
S_Error == <<"E", "r", "r", "o", "r">>
S_ErrorColon == <<"E", "r", "r", "o", "r", ":", " ">>
S_ColonSpace == <<":", " ">>
S_UnknownError == <<"U", "n", "k", "n", "o", "w", "n", " ", "e", "r", "r", "o", "r">>
S_at == <<"a", "t", " ">>
S_AtPrefix == <<" ", " ", "a", "t", " ">>
S_AtOpen == <<" ", " ", "a", "t", " ", "<">>
S_FuncOpen == <<" ", " ", "<">>
S_Close == <<">">>
S_SchemeSep == <<":", "/", "/">>
S_InternalProcess == <<"i", "n", "t", "e", "r", "n", "a", "l", "/", "p", "r", "o", "c", "e", "s", "s", "/">>
S_NodeModules == <<"n", "o", "d", "e", "_", "m", "o", "d", "u", "l", "e", "s", "/">>
S_digdug == <<"d", "i", "g", "d", "u", "g">>
S_leadfoot == <<"l", "e", "a", "d", "f", "o", "o", "t">>
S_ModuleRunMain == <<"M", "o", "d", "u", "l", "e", ".", "r", "u", "n", "M", "a", "i", "n">>
S_BootstrapNode == <<"b", "o", "o", "t", "s", "t", "r", "a", "p", "_", "n", "o", "d", "e", ".", "j", "s">>
S_NoStack == <<NL, "N", "o", " ", "s", "t", "a", "c", "k">>
S_NoStackOrLocation == <<NL, "N", "o", " ", "s", "t", "a", "c", "k", " ", "o", "r", " ",
                         "l", "o", "c", "a", "t", "i", "o", "n">>
S_LocationAt == <<NL, " ", " ", "a", "t", " ">>
S_Marker == <<"[", ".", ".", ".", "]">>

(***************************************************************************)
(* formatLine and the two dialect parsers                                  *)
(***************************************************************************)
NoMatch == [matched |-> FALSE, func |-> <<>>, source |-> <<>>]

\* _getSource: the source resolver of the base class is the identity
getSource(tracepath) == tracepath

\* mutant: a frame without function is rendered without the angle brackets
formatLineBare(func, source) ==
    IF func = <<>> THEN S_AtPrefix \o getSource(source)
    ELSE S_AtPrefix \o func \o S_FuncOpen \o getSource(source) \o S_Close

\* formatLine({ func, source }); func = <<>> is `!data.func`
formatLine(func, source) ==
    IF func = <<>> THEN S_AtOpen \o getSource(source) \o S_Close
    ELSE S_AtPrefix \o func \o S_FuncOpen \o getSource(source) \o S_Close

\* /^\s*at /.test(line)
ChromeSniff(line) == StartsWithAt(line, S_at, SkipSpace(line))

\* /^\s*at (.+?) \(([^)]+)\)$/.exec(line)
ChromeCall(line) ==
    LET n == Len(line)
        f0 == SkipSpace(line) + 3
        J == {j \in (f0 + 1)..(n - 3) :
                /\ line[j] = " "
                /\ line[j + 1] = "("
                /\ \A k \in (j + 2)..(n - 1) : line[k] # ")"}
    IN  IF ChromeSniff(line) /\ n >= 1 /\ line[n] = ")" /\ J # {}
        THEN LET j == CHOOSE x \in J : \A y \in J : x <= y
             IN  [matched |-> TRUE,
                  func |-> SubSeq(line, f0, j - 1),
                  source |-> SubSeq(line, j + 2, n - 1)]
        ELSE NoMatch

\* /^\s*at (.*)/.exec(line)
ChromeBare(line) ==
    IF ChromeSniff(line)
    THEN [matched |-> TRUE, func |-> <<>>,
          source |-> Slice(line, SkipSpace(line) + 2)]
    ELSE NoMatch

\* /^([^@]+)@(.*)/.exec(line)
SafariCall(line) ==
    LET k == IndexFrom(line, "@", 1)
    IN  IF k > 1
        THEN [matched |-> TRUE,
              func |-> SubSeq(line, 1, k - 1),
              source |-> Slice(line, k)]
        ELSE NoMatch

\* /^(\w+:\/\/.*)/.exec(line)
SafariBare(line) ==
    IF \E k \in 1..Len(line) :
          /\ \A j \in 1..k : line[j] \in WordChars
          /\ StartsWithAt(line, S_SchemeSep, k + 1)
    THEN [matched |-> TRUE, func |-> <<>>, source |-> line]
    ELSE NoMatch

\* mutant: the bracket-call parser drops the lines it cannot parse
ChromeLineDropping(line) ==
    LET call1 == ChromeCall(line)
        bare == ChromeBare(line)
    IN  IF call1.matched THEN formatLine(call1.func, call1.source)
        ELSE IF bare.matched THEN formatLine(<<>>, bare.source)
        ELSE <<>>

\* the callback of processChromeTrace's lines.map
ChromeLine(line) ==
    LET call1 == ChromeCall(line)
        bare == ChromeBare(line)
    IN  IF call1.matched THEN formatLine(call1.func, call1.source)
        ELSE IF bare.matched THEN formatLine(<<>>, bare.source)
        ELSE line

\* the callback of processSafariTrace's lines.map
SafariLine(line) ==
    LET call1 == SafariCall(line)
        bare == SafariBare(line)
    IN  IF call1.matched THEN formatLine(call1.func, call1.source)
        ELSE IF bare.matched THEN formatLine(<<>>, bare.source)
        ELSE line

processChromeTrace(lines) == [i \in 1..Len(lines) |-> ChromeLine(lines[i])]

processSafariTrace(lines) == [i \in 1..Len(lines) |-> SafariLine(lines[i])]

(***************************************************************************)
(* normalizeStackTrace                                                     *)
(***************************************************************************)
\* lines[0], which is undefined (tested as 'undefined') on an empty array
FirstOf(lines) == IF lines = <<>> THEN S_undefined ELSE lines[1]

\* /^(?:[A-Z]\w+)?Error: /.test(line)
IsHeaderLine(line) ==
    \/ StartsWith(line, S_ErrorColon)
    \/ /\ Len(line) >= 2
       /\ line[1] \in UpperChars
       /\ \E k \in 2..Len(line) :
            /\ \A j \in 2..k : line[j] \in WordChars
            /\ StartsWithAt(line, S_ErrorColon, k + 1)

\* /^\s*$/.test(line)
IsBlankLine(line) == \A i \in 1..Len(line) : IsSpace(line[i])

\* while (/^\s*$/.test(lines[0])) lines = lines.slice(1)
StripLeadingBlank(lines) ==
    LET K == {i \in 1..Len(lines) : ~IsBlankLine(lines[i])}
    IN  IF K = {} THEN <<>>
        ELSE SubSeq(lines, CHOOSE i \in K : \A j \in K : i <= j, Len(lines))

\* the denylist of the filter
IsNoise(line) ==
    \/ Contains(line, S_InternalProcess)
    \/ \E i \in 1..Len(line) :
          /\ StartsWithAt(line, S_NodeModules, i)
          /\ ~StartsWithAt(line, S_digdug, i + Len(S_NodeModules))
          /\ ~StartsWithAt(line, S_leadfoot, i + Len(S_NodeModules))
    \/ Contains(line, S_ModuleRunMain)
    \/ Contains(line, S_BootstrapNode)

\* the lines of the stack without its trailing white space
StackLines(stack) == Split(TrimEnd(stack))

\* firstLine: the header line kept aside, with its line break
HeaderOf(stack) ==
    LET lines == StackLines(stack)
    IN  IF IsHeaderLine(lines[1]) THEN lines[1] \o <<NL>> ELSE <<>>

\* the lines handed to the dialect parser
WorkingLines(stack) ==
    LET lines == StackLines(stack)
    IN  StripLeadingBlank(IF IsHeaderLine(lines[1]) THEN Tail(lines) ELSE lines)

\* mutant: the dialect is chosen line by line
ParsedLinesPerLine(lines) ==
    [i \in 1..Len(lines) |->
        IF ChromeSniff(lines[i]) THEN ChromeLine(lines[i]) ELSE SafariLine(lines[i])]

\* the dialect is chosen from the first line, for all lines
ParsedLines(lines) ==
    IF ChromeSniff(FirstOf(lines)) THEN processChromeTrace(lines)
    ELSE processSafariTrace(lines)

\* mutant: the filter keeps the frames of every dependency
FilterLinesKeepingModules(stackLines) ==
    SelectSeq(stackLines, LAMBDA l : ~Contains(l, S_InternalProcess))

\* stackLines.filter(...)
FilterLines(stackLines) == SelectSeq(stackLines, LAMBDA l : ~IsNoise(l))

normalizeStackTrace(stack, filterStack) ==
    LET all == StackLines(stack)
        header == IsHeaderLine(all[1])
        firstLine == IF header THEN all[1] \o <<NL>> ELSE <<>>
        lines == StripLeadingBlank(IF header THEN Tail(all) ELSE all)
        stackLines == ParsedLines(lines)
    IN  <<NL>> \o firstLine
            \o Join(IF filterStack THEN FilterLines(stackLines) ELSE stackLines)

(***************************************************************************)
(* JavaScript values: a type tag and the text String(value) gives          *)
(***************************************************************************)
Undefined == [t |-> "undefined", v |-> S_undefined]
Null == [t |-> "null", v |-> S_null]
Str(s) == [t |-> "string", v |-> s]
Num(digits) == [t |-> "number", v |-> digits]
True == [t |-> "boolean", v |-> <<"t", "r", "u", "e">>]
False == [t |-> "boolean", v |-> <<"f", "a", "l", "s", "e">>]
\* a record, array or map; text is what its toString gives
Obj(text) == [t |-> "object", v |-> text]

\* the value as a condition
Truthy(x) ==
    CASE x.t \in {"undefined", "null"} -> FALSE
      [] x.t = "string" -> x.v # <<>>
      [] x.t = "number" -> x.v # <<"0">>
      [] x.t = "boolean" -> x = True
      [] OTHER -> TRUE

\* typeof x
TypeOf(x) == IF x.t = "null" THEN "object" ELSE x.t

\* x != null
NotNullish(x) == x.t \notin {"undefined", "null"}

(***************************************************************************)
(* createDiff                                                              *)
(***************************************************************************)
\* lines.slice(5, -1)
SliceDiffLines(lines) == SubSeq(lines, 6, Len(lines) - 1)

RECURSIVE ReplaceRangeFrom(_, _)
\* .replace(/^@@[^@]*@@$/gm, '[...]') from position i on, where a line begins:
\* [^@]* runs to the next "@", over line breaks too
ReplaceRangeFrom(text, i) ==
    IF i > Len(text) THEN <<>>
    ELSE LET N == {k \in i..Len(text) : text[k] = NL}
             e == IF N = {} THEN Len(text) + 1 ELSE CHOOSE x \in N : \A y \in N : x <= y
             A == {k \in (i + 2)..Len(text) : text[k] = "@"}
             j == IF A = {} THEN 0 ELSE CHOOSE x \in A : \A y \in A : x <= y
             hit == /\ StartsWithAt(text, <<"@", "@">>, i)
                    /\ j # 0
                    /\ StartsWithAt(text, <<"@", "@">>, j)
                    /\ (j + 2 > Len(text) \/ text[j + 2] = NL)
         IN  IF hit
             THEN S_Marker \o (IF j + 2 > Len(text) THEN <<>>
                               ELSE <<NL>> \o ReplaceRangeFrom(text, j + 3))
             ELSE IF e > Len(text) THEN SubSeq(text, i, Len(text))
             ELSE SubSeq(text, i, e) \o ReplaceRangeFrom(text, e + 1)

\* mutant: the range lines are left as the patch gives them
KeepRanges(text) == text

ReplaceRanges(text) == ReplaceRangeFrom(text, 1)

\* the callback of .replace(/^([+-]?)(.*)$/gm, ...), for one line
RecodeLine(l) ==
    LET indicator == IF l # <<>> /\ l[1] \in {"+", "-"} THEN l[1] ELSE ""
        line == IF indicator = "" THEN l ELSE Tail(l)
    IN  IF line = S_Marker THEN line
        ELSE (IF indicator = "+" THEN <<"E">>
              ELSE IF indicator = "-" THEN <<"A">> ELSE <<>>) \o <<" ">> \o line

\* createDiff, from the text diffUtil.createPatch returned
createDiff(patch) ==
    LET diff == ReplaceRanges(Join(SliceDiffLines(Split(patch))))
    IN  IF diff # <<>>
        THEN Join([k \in 1..Len(Split(diff)) |-> RecodeLine(Split(diff)[k])])
        ELSE diff

(***************************************************************************)
(* Formatter.format                                                        *)
(***************************************************************************)
Thrown == [kind |-> "throw", v |-> <<>>, diffed |-> FALSE]

\* (error.name || 'Error') + ': ' + (error.message || 'Unknown error')
ComposedMessage(error) ==
    (IF Truthy(error.name) THEN error.name.v ELSE S_Error)
        \o S_ColonSpace
        \o (IF Truthy(error.message) THEN error.message.v ELSE S_UnknownError)

\* mutant: the stack is normalized whole, its leading copy of the message kept
DedupedStackKeeping(error) == error.stack.v

\* the stack without the leading copy of the message
DedupedStack(error) ==
    IF StartsWith(error.stack.v, ComposedMessage(error))
    THEN Slice(error.stack.v, Len(ComposedMessage(error)))
    ELSE IF StartsWith(error.stack.v, error.message.v)
    THEN Slice(error.stack.v, Len(error.message.v))
    ELSE error.stack.v

\* the condition of the diff step
WantsDiff(error) ==
    /\ Truthy(error.showDiff)
    /\ TypeOf(error.actual) = "object"
    /\ TypeOf(error.expected) = "object"

\* '\n\n' + diff + '\n', when createDiff returned a diff
DiffBlock(error, patch) ==
    IF WantsDiff(error) /\ createDiff(patch) # <<>>
    THEN <<NL, NL>> \o createDiff(patch) \o <<NL>>
    ELSE <<>>

\* the synthetic location line and its marker
LocationTrailer(error) ==
    S_LocationAt \o error.fileName.v
        \o (IF NotNullish(error.lineNumber)
            THEN <<":">> \o error.lineNumber.v
                     \o (IF NotNullish(error.columnNumber)
                         THEN <<":">> \o error.columnNumber.v ELSE <<>>)
            ELSE <<>>)
        \o S_NoStack

\* mutant: a blank normalized stack is appended like any other
TrailerAppendingBlank(error, filterStack) ==
    IF Truthy(error.stack)
    THEN normalizeStackTrace(DedupedStack(error), filterStack)
    ELSE IF Truthy(error.fileName) THEN LocationTrailer(error)
    ELSE S_NoStackOrLocation

\* what follows the message and the diff
Trailer(error, filterStack) ==
    IF /\ Truthy(error.stack)
       /\ HasNonSpace(normalizeStackTrace(DedupedStack(error), filterStack))
    THEN normalizeStackTrace(DedupedStack(error), filterStack)
    ELSE IF Truthy(error.fileName) THEN LocationTrailer(error)
    ELSE S_NoStackOrLocation

\* mutant: the first line is left without the indent
IndentAfterFirst(message, options) ==
    IF options.t = "object" /\ NotNullish(options.space)
    THEN Join([k \in 1..Len(Split(message)) |->
                 IF k = 1 THEN Split(message)[k]
                 ELSE options.space.v \o Split(message)[k]])
    ELSE message

\* the indentation of the message
Indent(message, options) ==
    IF options.t = "object" /\ NotNullish(options.space)
    THEN Join([k \in 1..Len(Split(message)) |-> options.space.v \o Split(message)[k]])
    ELSE message

\* whether the error takes the structured branch
IsStructured(error) ==
    /\ error.t # "string"
    /\ (Truthy(error.message) \/ Truthy(error.stack))

format(error, options, filterStack, patch) ==
    IF error.t \in {"null", "undefined"} THEN Thrown
    ELSE IF IsStructured(error)
    THEN IF Truthy(error.stack) /\ error.stack.t # "string" THEN Thrown
         ELSE [kind |-> "string",
               v |-> Indent(ComposedMessage(error) \o DiffBlock(error, patch)
                                \o Trailer(error, filterStack), options),
               diffed |-> WantsDiff(error)]
    ELSE [kind |-> "string", v |-> Indent(error.v, options), diffed |-> FALSE]

(***************************************************************************)
(* The inputs: stack lines, error fields, patches                          *)
(***************************************************************************)
L_ChromeCall == <<" ", " ", " ", " ", "a", "t", " ", "f", " ", "(", "a", ".", "j", "s", ":", "1", ")">>
L_ChromeBare == <<" ", " ", " ", " ", "a", "t", " ", "n", "o", "d", "e", "_", "m", "o", "d", "u", "l", "e", "s", "/", "d", "i", "g", "d", "u", "g">>
L_SafariCall == <<"f", "@", "a", ".", "j", "s", ":", "1">>
L_SafariBare == <<"h", "t", "t", "p", ":", "/", "/", "a", ".", "j", "s">>
L_ChromeNoise == <<" ", " ", " ", " ", "a", "t", " ", "g", " ", "(", "n", "o", "d", "e", "_", "m", "o", "d", "u", "l", "e", "s", "/", "m", ")">>
L_Internal == <<" ", " ", " ", " ", "a", "t", " ", "p", " ", "(", "i", "n", "t", "e", "r", "n", "a", "l", "/", "p", "r", "o", "c", "e", "s", "s", "/", "n", ".", "j", "s", ")">>
L_RunMain == <<"M", "o", "d", "u", "l", "e", ".", "r", "u", "n", "M", "a", "i", "n">>
S_TypeError == <<"T", "y", "p", "e", "E", "r", "r", "o", "r">>
S_HeaderLine == <<"T", "y", "p", "e", "E", "r", "r", "o", "r", ":", " ", "x">>
S_x == <<"x">>
S_TwoLines == <<"a", "\n", "b">>
S_Plain == <<"p", "l", "a", "i", "n">>
S_ObjectObject == <<"[", "o", "b", "j", "e", "c", "t", " ", "O", "b", "j", "e", "c", "t", "]">>
S_FileName == <<"f", ".", "j", "s">>
S_Indent == <<" ", " ">>
P_Index == <<"I", "n", "d", "e", "x", ":", " ">>
P_Old == <<"-", "-", "-", " ", "\t">>
P_New == <<"+", "+", "+", " ", "\t">>
D_Open == <<"{">>
D_One == <<" ", " ", "\"", "a", "\"", ":", " ", "1">>
D_Two == <<" ", " ", "\"", "a", "\"", ":", " ", "2">>
D_Minus == <<"-", "1">>
D_Close == <<"}">>

\* the longest stack handed to normalizeStackTrace, in lines
MaxLines == 3

SeqsUpTo(S, n) == UNION {[1..k -> S] : k \in 0..n}

StackLineSet == {L_ChromeCall, L_ChromeBare, L_SafariCall, L_SafariBare,
                 L_ChromeNoise, L_Internal, L_RunMain}

\* what surrounds the frames: nothing; a header line; a blank line before and a
\* line break after; a header line, a blank line and a line break after
StackShapes == {[prefix |-> <<>>, suffix |-> <<>>],
                [prefix |-> <<S_HeaderLine>>, suffix |-> <<>>],
                [prefix |-> <<<<>>>>, suffix |-> <<NL>>],
                [prefix |-> <<S_HeaderLine, <<>>>>, suffix |-> <<NL>>]}

StackText(shape, lines) == Join(shape.prefix \o lines) \o shape.suffix

\* the most hunks of a patch
MaxHunks == 3

\* the lines of a hunk, each with its indicator
HunkBodySet ==
    {<<<<"-">> \o D_One, <<"+">> \o D_Two>>,
     <<<<" ">> \o D_Open, <<"-">> \o D_One, <<"+">> \o D_Two, <<" ">> \o D_Close>>,
     <<<<"+">> \o D_Minus>>,
     <<<<"-">> \o D_Minus, <<" ">> \o D_Close>>}

Digit(k) == <<"0", "1", "2", "3", "4", "5", "6", "7", "8", "9">>[k + 1]

\* the range line of the k-th hunk
HunkHeader(k) ==
    <<"@", "@", " ", "-", Digit(k), ",", "2", " ", "+", Digit(k), ",", "2", " ", "@", "@">>

RECURSIVE HunkLines(_, _)
\* the lines of the hunks from the k-th on, each hunk under its range line
HunkLines(hunks, k) ==
    IF k > Len(hunks) THEN <<>>
    ELSE <<HunkHeader(k)>> \o hunks[k] \o HunkLines(hunks, k + 1)

\* what diffUtil.createPatch('', actual + '\n', expected + '\n', '', '') returns
\* for a difference of these hunks: four header lines, the hunks, a line break
PatchText(hunks) ==
    Join(<<P_Index, [i \in 1..67 |-> "="], P_Old, P_New>> \o HunkLines(hunks, 1))
        \o <<NL>>

\* the most lines of a stack trace of an error, after its header
MaxFrames == 2

\* an error record with every field absent
Record ==
    [t |-> "object", v |-> S_ObjectObject, name |-> Undefined, message |-> Undefined,
     stack |-> Undefined, fileName |-> Undefined, lineNumber |-> Undefined,
     columnNumber |-> Undefined, showDiff |-> Undefined, actual |-> Undefined,
     expected |-> Undefined]

\* a value that is no record: its properties read as undefined
Primitive(x) == [Record EXCEPT !.t = x.t, !.v = x.v]

Names == {Undefined, Str(S_TypeError)}

Messages == {Undefined, Str(<<>>), Str(S_x), Str(S_TwoLines)}

RECURSIVE Concat(_)
Concat(parts) == IF parts = <<>> THEN <<>> ELSE Head(parts) \o Concat(Tail(parts))

\* the stacks of an error of this name and message: absent, empty, a number, or
\* text that opens with nothing, with the composed message or with the raw
\* message, followed by frames or by a second copy of the composed message
StacksFor(e) ==
    {Undefined, Str(<<>>), Num(<<"4", "2">>)}
        \cup {Str(prefix \o Concat([k \in 1..Len(body) |-> <<NL>> \o body[k]])) :
                prefix \in {<<>>, ComposedMessage(e), e.message.v},
                body \in SeqsUpTo({L_ChromeCall, L_ChromeNoise, ComposedMessage(e)},
                                  MaxFrames)}

\* errors that differ in name, message and stack
StackErrors ==
    UNION {{[e EXCEPT !.stack = st] : st \in StacksFor(e)} :
              e \in {[Record EXCEPT !.name = n, !.message = m] :
                        n \in Names, m \in Messages}}

\* errors that differ in stack and location
LocationErrors ==
    {[Record EXCEPT !.message = Str(S_x), !.stack = st, !.fileName = f,
                    !.lineNumber = l, !.columnNumber = c] :
        st \in {Undefined, Str(<<>>), Str(S_Indent), Str(L_ChromeNoise), Str(L_ChromeCall)},
        f \in {Undefined, Str(<<>>), Str(S_FileName)},
        l \in {Undefined, Null, Num(<<"0">>), Num(<<"7">>)},
        c \in {Undefined, Num(<<"3">>)}}

DiffValues == {Undefined, Null, Str(S_x), Num(<<"1">>), Obj(S_ObjectObject)}

\* errors that differ in showDiff, actual and expected
DiffErrors ==
    {[Record EXCEPT !.message = Str(S_x), !.stack = st, !.showDiff = d,
                    !.actual = a, !.expected = x] :
        st \in {Undefined, Str(L_ChromeCall)},
        d \in {Undefined, False, True},
        a \in DiffValues, x \in DiffValues}

\* strings, null, undefined, a number, records without message and stack
PlainErrors ==
    {Primitive(Str(S_Plain)), Primitive(Str(S_TwoLines)), Primitive(Str(<<>>)),
     Primitive(Null), Primitive(Undefined), Primitive(Num(<<"4", "2">>)),
     Record, [Record EXCEPT !.fileName = Str(S_FileName)]}

Errors == StackErrors \cup LocationErrors \cup DiffErrors \cup PlainErrors

NoOptions == [t |-> "undefined", space |-> Undefined]

OptionsSet == {NoOptions,
               [t |-> "object", space |-> Null],
               [t |-> "object", space |-> Str(<<>>)],
               [t |-> "object", space |-> Str(S_Indent)]}

(***************************************************************************)
(* The calls                                                               *)
(***************************************************************************)
NoReturn == [kind |-> "none", v |-> <<>>, diffed |-> FALSE]

\* the constructor: filterErrorStack is false unless the options set it
Init ==
    /\ filterErrorStack \in BOOLEAN
    /\ pc = "idle"
    /\ call = [op |-> "none"]
    /\ ret = NoReturn
    /\ createDiffCalls = <<>>

\* normalizeStackTrace(stack, this.filterErrorStack, this._getSource)
Normalize ==
    /\ pc = "idle"
    /\ \E shape \in StackShapes, lines \in SeqsUpTo(StackLineSet, MaxLines) :
          /\ call' = [op |-> "normalizeStackTrace",
                      stack |-> StackText(shape, lines),
                      first |-> <<>>]
          /\ ret' = [kind |-> "string",
                     v |-> normalizeStackTrace(StackText(shape, lines),
                                               filterErrorStack),
                     diffed |-> FALSE]
    /\ pc' = "normalized"
    /\ UNCHANGED <<filterErrorStack, createDiffCalls>>

\* normalizeStackTrace applied to its own result
NormalizeAgain ==
    /\ pc = "normalized"
    /\ call' = [op |-> "normalizeStackTrace", stack |-> ret.v, first |-> call.stack]
    /\ ret' = [kind |-> "string",
               v |-> normalizeStackTrace(ret.v, filterErrorStack),
               diffed |-> FALSE]
    /\ pc' = "renormalized"
    /\ UNCHANGED <<filterErrorStack, createDiffCalls>>

NextNormalize == Normalize \/ NormalizeAgain

\* createDiff(actual, expected), createPatch returning the patch of some hunks
CreateDiff ==
    /\ pc = "idle"
    /\ \E hunks \in SeqsUpTo(HunkBodySet, MaxHunks) :
          /\ call' = [op |-> "createDiff", hunks |-> hunks, patch |-> PatchText(hunks)]
          /\ ret' = [kind |-> "string", v |-> createDiff(PatchText(hunks)),
                     diffed |-> TRUE]
    /\ createDiffCalls' =
          Append(createDiffCalls, <<Obj(S_ObjectObject), Obj(S_ObjectObject)>>)
    /\ pc' = "diffed"
    /\ UNCHANGED filterErrorStack

\* the patches createPatch may return to a call of format: of no hunk or of
\* one; no patch when the diff step does not run
PatchesFor(error) ==
    IF WantsDiff(error) THEN {PatchText(hunks) : hunks \in SeqsUpTo(HunkBodySet, 1)}
    ELSE {<<>>}

\* formatter.format(error, options)
Format ==
    /\ pc = "idle"
    /\ \E error \in Errors, options \in OptionsSet :
          \E patch \in PatchesFor(error) :
             LET result == format(error, options, filterErrorStack, patch)
             IN  /\ call' = [op |-> "format", error |-> error, options |-> options,
                             patch |-> patch]
                 /\ ret' = result
                 /\ createDiffCalls' =
                       IF result.diffed
                       THEN Append(createDiffCalls, <<error.actual, error.expected>>)
                       ELSE createDiffCalls
    /\ pc' = "formatted"
    /\ UNCHANGED filterErrorStack

Next == Format

Spec == Init /\ [][Next]_vars

SpecDiff == Init /\ [][CreateDiff]_vars

SpecNormalize == Init /\ [][NextNormalize]_vars

(***************************************************************************)
(* Claims about normalizeStackTrace                                        *)
(***************************************************************************)
\* the lines of a result of normalizeStackTrace after its line break and header
ResultBody(stack, result) == Slice(result, 1 + Len(HeaderOf(stack)))

\* whether the selected dialect parses the line
ParsedBy(chrome, line) ==
    IF chrome THEN ChromeCall(line).matched \/ ChromeBare(line).matched
    ELSE SafariCall(line).matched \/ SafariBare(line).matched

\* the working lines, each formatted by the one parser the first line selects
OneDialect(stack) ==
    LET W == WorkingLines(stack)
        chrome == ChromeSniff(FirstOf(W))
    IN  [i \in 1..Len(W) |-> IF chrome THEN ChromeLine(W[i]) ELSE SafariLine(W[i])]

\* the stack has no header line and no leading blank line
IsBare(stack) ==
    LET lines == StackLines(stack)
    IN  ~IsHeaderLine(lines[1]) /\ ~IsBlankLine(lines[1])

\* C5 as stated: a second normalization of a stack without header and leading
\* blank lines gives the lines of the first, in number and in content.
C5_Idempotent ==
    (pc = "renormalized" /\ IsBare(call.first))
        => Split(Slice(ret.v, 1)) = Split(Slice(call.stack, 1))

\* C5 amended: with the filter off, a second normalization keeps the number of
\* lines, but when the first line of the stack is a frame it rewrites every
\* frame line "  at X" the first pass produced as "  at <X>".
C5_Rewraps ==
    (pc = "renormalized" /\ IsBare(call.first) /\ ~filterErrorStack)
        => LET W == WorkingLines(call.first)
               one == Split(Slice(call.stack, 1))
               two == Split(Slice(ret.v, 1))
               chrome == ChromeSniff(W[1])
           IN  /\ Len(two) = Len(one)
               /\ Len(one) = Len(W)
               /\ ParsedBy(chrome, W[1]) =>
                    \A i \in 1..Len(W) :
                        ParsedBy(chrome, W[i]) =>
                            /\ StartsWith(one[i], S_AtPrefix)
                            /\ two[i] = S_AtOpen \o Slice(one[i], 5) \o S_Close
                            /\ two[i] # one[i]

\* C5 witness: a stack whose first line is a frame has been normalized twice
C5_Witness ==
    /\ pc = "renormalized"
    /\ IsBare(call.first)
    /\ ~filterErrorStack
    /\ LET W == WorkingLines(call.first)
       IN  /\ Len(W) >= 2
           /\ ParsedBy(ChromeSniff(W[1]), W[1])
    /\ ret.v # call.stack

\* C6: with the filter on, the result holds exactly the formatted frames whose
\* raw line matches no noise pattern, in their order; with the filter off it
\* holds every frame, those matching a noise pattern included.
C6_Filter ==
    pc = "normalized"
        => LET W == WorkingLines(call.stack)
               kept == SelectSeq(W, LAMBDA l : ~IsNoise(l))
               formatted(lines) ==
                   [i \in 1..Len(lines) |->
                       IF ChromeSniff(FirstOf(W)) THEN ChromeLine(lines[i])
                       ELSE SafariLine(lines[i])]
               all == formatted(W)
           IN  /\ filterErrorStack =>
                    ResultBody(call.stack, ret.v) = Join(formatted(kept))
               /\ ~filterErrorStack =>
                    ResultBody(call.stack, ret.v) = Join(all)
               /\ \A i \in 1..Len(W) : IsNoise(W[i]) <=> IsNoise(all[i])

\* C6 witness: a filtered stack with a noise frame between two other frames
C6_Witness ==
    /\ pc = "normalized"
    /\ filterErrorStack
    /\ LET W == WorkingLines(call.stack)
       IN  /\ Len(W) = 3
           /\ ~IsNoise(W[1])
           /\ IsNoise(W[2])
           /\ ~IsNoise(W[3])
    /\ Len(Split(ResultBody(call.stack, ret.v))) = 2

\* C7: every line of a stack is formatted by the parser its first content line
\* selects: a later line of the other dialect is not parsed by the other parser.
C7_OneDialect ==
    pc = "normalized"
        => ResultBody(call.stack, ret.v)
             = Join(IF filterErrorStack THEN FilterLines(OneDialect(call.stack))
                    ELSE OneDialect(call.stack))

\* C7 witness: a bracket-call stack with a later at-sign line, left unparsed
C7_Witness ==
    /\ pc = "normalized"
    /\ ~filterErrorStack
    /\ LET W == WorkingLines(call.stack)
       IN  /\ Len(W) >= 2
           /\ ChromeSniff(W[1])
           /\ SafariCall(W[2]).matched
           /\ ~ChromeSniff(W[2])
           /\ Split(ResultBody(call.stack, ret.v))[2] = W[2]

\* C10: with the filter off the result has one line per working line, in order,
\* and a line that matches neither pattern of the selected dialect is unchanged.
C10_LineForLine ==
    (pc = "normalized" /\ ~filterErrorStack /\ WorkingLines(call.stack) # <<>>)
        => LET W == WorkingLines(call.stack)
               out == Split(ResultBody(call.stack, ret.v))
           IN  /\ Len(out) = Len(W)
               /\ \A i \in 1..Len(W) :
                    ~ParsedBy(ChromeSniff(W[1]), W[i]) => out[i] = W[i]

\* C10 witness: an unparsable line after a bracket-call frame, filter off
C10_Witness ==
    /\ pc = "normalized"
    /\ ~filterErrorStack
    /\ LET W == WorkingLines(call.stack)
       IN  /\ Len(W) >= 2
           /\ ChromeCall(W[1]).matched
           /\ ~ParsedBy(TRUE, W[2])
           /\ Split(ResultBody(call.stack, ret.v))[2] = W[2]

(***************************************************************************)
(* Claims about Formatter.format                                           *)
(***************************************************************************)
\* the number of places where p occurs in s
Count(s, p) == Cardinality({i \in 1..(Len(s) + 1) : StartsWithAt(s, p, i)})

EndsWith(s, p) == Len(s) >= Len(p) /\ SubSeq(s, Len(s) - Len(p) + 1, Len(s)) = p

\* format took the structured branch and returned
Formatted == pc = "formatted" /\ ret.kind = "string" /\ IsStructured(call.error)

\* the stack is text that begins with the composed message
StackOpensWithMessage(error) ==
    /\ error.stack.t = "string"
    /\ error.stack.v # <<>>
    /\ StartsWith(error.stack.v, ComposedMessage(error))

C2_DiffOnlyOnObjects ==
    (pc = "formatted" /\ createDiffCalls # <<>>)
        => /\ Truthy(call.error.showDiff)
           /\ call.error.actual.t = "object"
           /\ call.error.expected.t = "object"

\* C3 as stated: format returns a string for every error and every options.
C3_NeverThrows == pc = "formatted" => ret.kind = "string"

\* the trailer the claim describes; a fileName is present when it is truthy, a
\* line or column number is set when it is neither null nor undefined
ClaimedTrailer(error, normalized) ==
    IF Truthy(error.stack) /\ HasNonSpace(normalized) THEN normalized
    ELSE IF Truthy(error.fileName)
    THEN S_LocationAt \o error.fileName.v
            \o (IF error.lineNumber.t \in {"undefined", "null"} THEN <<>>
                ELSE IF error.columnNumber.t \in {"undefined", "null"}
                THEN <<":">> \o error.lineNumber.v
                ELSE <<":">> \o error.lineNumber.v \o <<":">> \o error.columnNumber.v)
            \o S_NoStack
    ELSE S_NoStackOrLocation

\* C4: the result of a structured error is the composed message, the diff
\* block and exactly one trailer: the normalized stack when it has a character
\* that is not white space, else the location line and 'No stack' when there is
\* a fileName, else 'No stack or location', with which the result then ends.
C4_Trailer ==
    Formatted
        => LET error == call.error
               normalized == IF Truthy(error.stack)
                             THEN normalizeStackTrace(DedupedStack(error), filterErrorStack)
                             ELSE <<>>
               usable == Truthy(error.stack) /\ HasNonSpace(normalized)
           IN  /\ ret.v = Indent(ComposedMessage(error) \o DiffBlock(error, call.patch)
                                    \o ClaimedTrailer(error, normalized), call.options)
               /\ (~usable /\ ~Truthy(error.fileName))
                    => EndsWith(ret.v, Tail(S_NoStackOrLocation))
               /\ (~usable /\ Truthy(error.fileName))
                    => /\ EndsWith(ret.v, Tail(S_NoStack))
                       /\ Contains(ret.v, S_at \o error.fileName.v)
               /\ usable => ~EndsWith(ret.v, Tail(S_NoStack))

\* C4 witness: a stack whose only frame the filter removed, and a fileName with
\* line and column: the location line and 'No stack' were appended
C4_Witness ==
    /\ Formatted
    /\ filterErrorStack
    /\ call.error.stack = Str(L_ChromeNoise)
    /\ call.error.fileName = Str(S_FileName)
    /\ NotNullish(call.error.lineNumber)
    /\ NotNullish(call.error.columnNumber)
    /\ EndsWith(ret.v, S_FileName \o <<":">> \o call.error.lineNumber.v \o <<":">>
                          \o call.error.columnNumber.v \o S_NoStack)

\* C8: with options.space set, each line of the result is the indent followed
\* by the same line of the result without options, and there are as many; with
\* options.space unset the result is the result without options.
C8_Indent ==
    (pc = "formatted" /\ ret.kind = "string")
        => LET plain == format(call.error, NoOptions, filterErrorStack, call.patch).v
               lines == Split(plain)
               out == Split(ret.v)
           IN  IF NotNullish(call.options.space)
               THEN /\ Len(out) = Len(lines)
                    /\ \A k \in 1..Len(lines) : out[k] = call.options.space.v \o lines[k]
               ELSE ret.v = plain

\* C8 witness: a result of several lines was indented by two spaces
C8_Witness ==
    /\ pc = "formatted"
    /\ ret.kind = "string"
    /\ call.options.space = Str(S_Indent)
    /\ Len(Split(ret.v)) >= 3
    /\ \A k \in 1..Len(Split(ret.v)) : StartsWith(Split(ret.v)[k], S_Indent)

(***************************************************************************)
(* Claims about createDiff                                                 *)
(***************************************************************************)
\* the lines of the result that are the marker
MarkerLines(lines) == {k \in 1..Len(lines) : lines[k] = S_Marker}

RECURSIVE RecodedHunks(_, _)
\* the hunks from the k-th on, recoded, a marker line before each but the first
RecodedHunks(hunks, k) ==
    IF k > Len(hunks) THEN <<>>
    ELSE (IF k = 1 THEN <<>> ELSE <<S_Marker>>)
            \o [i \in 1..Len(hunks[k]) |->
                  (IF hunks[k][i][1] = "+" THEN <<"E", " ">>
                   ELSE IF hunks[k][i][1] = "-" THEN <<"A", " ">>
                   ELSE <<" ", " ">>) \o Tail(hunks[k][i])]
            \o RecodedHunks(hunks, k + 1)

\* C9 as stated: the result has one '[...]' line for each hunk of the diff and
\* no '@@' line.
C9_MarkerPerHunk ==
    pc = "diffed"
        => LET lines == IF ret.v = <<>> THEN <<>> ELSE Split(ret.v)
           IN  /\ Cardinality(MarkerLines(lines)) = Len(call.hunks)
               /\ \A k \in 1..Len(lines) : ~Contains(lines[k], <<"@", "@">>)

\* C9 amended: the range line of the first hunk is cut off with the header; the
\* result has one '[...]' line for each hunk after the first, in hunk order and
\* without prefix, no '@@' line, and every other line recoded.
C9_MarkerPerLaterHunk ==
    pc = "diffed"
        => LET lines == IF ret.v = <<>> THEN <<>> ELSE Split(ret.v)
           IN  /\ Cardinality(MarkerLines(lines))
                    = (IF call.hunks = <<>> THEN 0 ELSE Len(call.hunks) - 1)
               /\ \A k \in 1..Len(lines) : ~Contains(lines[k], <<"@", "@">>)
               /\ lines = RecodedHunks(call.hunks, 1)

\* C9 witness: a diff of three hunks gave a result with two marker lines
C9_Witness ==
    /\ pc = "diffed"
    /\ Len(call.hunks) = 3
    /\ Cardinality(MarkerLines(Split(ret.v))) = 2

====
